---- MODULE Spec2Model ----
(***************************************************************************)
(* btrsnap: timestamped BTRFS snapshots (src/btrsnap/btrsnap.py).          *)
(*                                                                         *)
(* Names on the filesystem are Python strings; they are modelled as        *)
(* sequences of code points so that sorting and the comparisons < and <=   *)
(* are the lexicographic comparisons Python performs.                      *)
(***************************************************************************)
EXTENDS Integers, Sequences, FiniteSets, TLC

(***************************************************************************)
(* Bounds of the model.                                                    *)
(***************************************************************************)
NIds == 4          \* size of the pool of snapshot names used by send/receive
MaxRounds == 2     \* successive invocations of "btrsnap send" on one pair
NRepos == 2        \* sibling repositories walked by "btrsnap send -r"
NDeepIds == 2      \* size of the pool of snapshot names per sibling
MaxKeep == 4       \* largest KEEP passed to unsnap
NUnsnapIds == 4    \* size of the pool of snapshot names for unsnap
NSnapNames == 5    \* size of the pool of directory entries for snap
NLifeNames == 2    \* size of the pool of initial directory entries for a history
MaxCreated == 3    \* snapshots created in one history
MaxUnsnaps == 1    \* unsnap commands in one history
MaxLifeKeep == 1   \* largest KEEP passed to unsnap in a history
MaxDay == 2        \* last day of June 2024 the clock reaches in a history

(***************************************************************************)
(* Strings.                                                                *)
(***************************************************************************)
Hyphen == 45                       \* ord('-')
Chr(d) == 48 + d                   \* ord of the decimal digit d
IsDigit(ch) == ch >= 48 /\ ch <= 57
None == << >>                      \* Python's None (falsy, like '')

\* Python's str < str: lexicographic on code points, a proper prefix is less.
RECURSIVE StrLess(_, _)
StrLess(a, b) ==
  IF b = << >> THEN FALSE
  ELSE IF a = << >> THEN TRUE
  ELSE IF Head(a) < Head(b) THEN TRUE
  ELSE IF Head(a) > Head(b) THEN FALSE
  ELSE StrLess(Tail(a), Tail(b))

StrLeq(a, b) == a = b \/ StrLess(a, b)

\* str(n) for n >= 0
RECURSIVE DecStr(_)
DecStr(n) == IF n < 10 THEN << Chr(n) >> ELSE DecStr(n \div 10) \o << Chr(n % 10) >>

\* '{:0wd}'.format(n): zero padded to at least w characters, never truncated
RECURSIVE ZeroPad(_, _)
ZeroPad(s, w) == IF Len(s) >= w THEN s ELSE ZeroPad(<< Chr(0) >> \o s, w)

\* datetime.date.isoformat() of the date <<year, month, day>>
IsoFormat(date) ==
  ZeroPad(DecStr(date[1]), 4) \o << Hyphen >> \o ZeroPad(DecStr(date[2]), 2)
    \o << Hyphen >> \o ZeroPad(DecStr(date[3]), 2)

\* '{}-{:04d}'.format(today.isoformat(), counter)
FormatTimestamp(today, counter) ==
  IsoFormat(today) \o << Hyphen >> \o ZeroPad(DecStr(counter), 4)

\* re.search(r'^\d{4}-\d{2}-\d{2}-\d{4}$', d)
MatchesPattern(d) ==
  /\ Len(d) = 15
  /\ \A i \in {5, 8, 11} : d[i] = Hyphen
  /\ \A i \in (1..15) \ {5, 8, 11} : IsDigit(d[i])

\* list.sort() of a set of strings
RECURSIVE SortAsc(_)
SortAsc(S) ==
  IF S = {} THEN << >>
  ELSE LET m == CHOOSE x \in S : \A y \in S : StrLeq(x, y)
       IN << m >> \o SortAsc(S \ {m})

\* list.sort(reverse=True) of a set of strings
RECURSIVE SortDesc(_)
SortDesc(S) ==
  IF S = {} THEN << >>
  ELSE LET m == CHOOSE x \in S : \A y \in S : StrLeq(y, x)
       IN << m >> \o SortDesc(S \ {m})

Range(s) == { s[i] : i \in 1..Len(s) }

\* SnapshotsMixin.snapshots: the directory entries matching the pattern,
\* newest first
Snapshots(contents) == SortDesc({ d \in contents : MatchesPattern(d) })


(***************************************************************************)
(* State.                                                                  *)
(***************************************************************************)
VARIABLES
  mode,           \* "single": btrsnap send; "deep": btrsnap send -r
  send_fs,        \* sibling -> entries of its send directory
  receive_fs,     \* sibling -> entries of its receive directory
  receive_isdir,  \* sibling -> the receive directory exists
  cur,            \* sibling the walk is at (position in zip(snappaths, receive_paths))
  pc,             \* position of the running command
  diff,           \* sendreceive: local list diff
  union,          \* sendreceive: local list union
  parent,         \* sendreceive: local parent
  snapshot,       \* sendreceive: local snapshot
  number_sent,    \* sendreceive: local number_sent
  p1,             \* the btrfs send process feeding the pipe, << >> when none
  p2,             \* the btrfs receive process: "none", "running", "exited"
  msg,            \* results returned so far
  err,            \* exception that reached the caller, "none" when none
  issued,         \* history: sibling -> <<parent, snapshot>> transfers started, in order
  completed,      \* history: sibling -> number of transfers whose receive succeeded
  called,         \* history: siblings sendreceive was called for in this invocation
  stderr_seen,    \* history: some receive that exited 0 wrote diagnostics
  last_exit,      \* history: return code and diagnostics of the last receive that exited
  round,          \* number of invocations started
  B0,             \* history: sibling -> receive snapshots when sendreceive read them
  prev,           \* history: outcome of the previous invocation
  path_fs,        \* entries of the directory PATH of snap and unsnap
  clock,          \* the system date, <<year, month, day>>
  today,          \* timestamp: local today
  snapshots,      \* timestamp, unsnap: local list snapshots
  last_snapshot,  \* timestamp: local last_snapshot
  less_than_last_snapshot,   \* timestamp: local less_than_last_snapshot
  timestamp,      \* timestamp: local timestamp
  counter,        \* timestamp: local counter
  keep,           \* unsnap: argument keep
  snaps_to_delete,  \* unsnap: local snaps_to_delete
  deletions,      \* unsnap: number of btrfs.unsnap calls made by the for loop
  created,        \* history: the names of the snapshots created in PATH, in order
  keeps           \* history: the values of keep unsnap was called with, in order

syncVars == << mode, send_fs, receive_fs, receive_isdir, cur, pc, diff, union,
               parent, snapshot, number_sent, p1, p2, msg, err, issued,
               completed, called, stderr_seen, last_exit, round, B0, prev >>

repoVars == << path_fs, clock, today, snapshots, last_snapshot,
               less_than_last_snapshot, timestamp, counter, keep,
               snaps_to_delete, deletions, created, keeps >>

vars == << syncVars, repoVars >>

(***************************************************************************)
(* Pools of names.                                                         *)
(***************************************************************************)
\* the i-th snapshot name of the pool: two per day, counters 0001 and 0010
Id(i) == FormatTimestamp(<< 2024, 1, (i + 1) \div 2 >>, IF i % 2 = 1 THEN 1 ELSE 10)

IdPool == { Id(i) : i \in 1..NIds }
DeepPool == { Id(i) : i \in 1..NDeepIds }

NoPrev == [ outcome |-> "none", issued |-> << >>, completed |-> 0,
            A |-> {}, B |-> {}, after |-> {} ]

(***************************************************************************)
(* sendreceive                                                             *)
(***************************************************************************)
\* mutant: the symmetric difference (^) in place of the difference (-)
SortedDiffSymmetric(send_set, receive_set) ==
  SortAsc((send_set \ receive_set) \cup (receive_set \ send_set))

\* diff = list(send_set - receive_set); diff.sort()
SortedDiff(send_set, receive_set) == SortAsc(send_set \ receive_set)

\* mutant: union sorted newest first, so that union[-1] is the oldest
SortedUnionDescending(send_set, receive_set) == SortDesc(send_set \cap receive_set)

\* union = list(send_set & receive_set); union.sort()
SortedUnion(send_set, receive_set) == SortAsc(send_set \cap receive_set)

\* mutant: the oldest common snapshot, union[0], in place of the newest
FirstParentOldest(u, d) ==
  IF u # << >> /\ StrLess(u[1], d[1]) THEN u[1] ELSE None

\* mutant: the comparison reversed
FirstParentReversed(u, d) ==
  IF u # << >> /\ StrLess(d[1], u[Len(u)]) THEN u[Len(u)] ELSE None

\* the parent of the first transfer
FirstParent(u, d) ==
  IF u # << >> /\ StrLess(u[Len(u)], d[1]) THEN u[Len(u)] ELSE None

\* mutant: the return code is not tested
ReceiveNeverRaises(returncode, stderr) == FALSE

\* mutant: diagnostics on stderr are taken for a failure
ReceiveRaisesOnStderr(returncode, stderr) == returncode # 0 \/ stderr

\* Btrfs.receive raises BtrfsError
ReceiveRaises(returncode, stderr) == returncode # 0

\* sendreceive returns m: the caller prints it (single) or the walk appends it
\* and goes on to the next pair (deep)
Return(m) ==
  /\ msg' = Append(msg, m)
  /\ IF mode = "deep" /\ cur < NRepos
       THEN cur' = cur + 1 /\ pc' = "call"
       ELSE cur' = cur /\ pc' = "done"

\* run_send, not recursive: caller(sendreceive, send_path, receive_path)
RunSend ==
  /\ mode = "single"
  /\ pc \in {"idle", "done", "error"}
  /\ round < MaxRounds
  /\ round' = round + 1
  /\ prev' = IF pc = "idle" THEN NoPrev
             ELSE [ outcome |-> pc, issued |-> issued[1], completed |-> completed[1],
                    A |-> Range(Snapshots(send_fs[1])), B |-> B0[1],
                    after |-> Range(Snapshots(receive_fs[1])) ]
  /\ cur' = 1
  /\ pc' = "call"
  /\ diff' = << >> /\ union' = << >> /\ parent' = None /\ snapshot' = None
  /\ number_sent' = 0 /\ p1' = << >> /\ p2' = "none"
  /\ msg' = << >> /\ err' = "none"
  /\ issued' = [ r \in DOMAIN issued |-> << >> ]
  /\ completed' = [ r \in DOMAIN completed |-> 0 ]
  /\ called' = {}
  /\ B0' = [ r \in DOMAIN B0 |-> {} ]
  /\ UNCHANGED repoVars
  /\ UNCHANGED << mode, send_fs, receive_fs, receive_isdir, stderr_seen, last_exit >>

\* run_send, recursive: sendreceive_deep up to the first sendreceive call
SendreceiveDeep ==
  /\ mode = "deep"
  /\ pc = "idle"
  /\ round' = round + 1
  /\ receive_isdir' = [ r \in DOMAIN receive_isdir |-> TRUE ]   \* os.mkdir(p)
  /\ cur' = 1
  /\ pc' = "call"
  /\ UNCHANGED repoVars
  /\ UNCHANGED << mode, send_fs, receive_fs, diff, union, parent, snapshot,
                  number_sent, p1, p2, msg, err, issued, completed, called,
                  stderr_seen, last_exit, B0, prev >>

\* sendreceive up to "if diff:", and its else branch
Sendreceive ==
  /\ pc = "call"
  /\ called' = called \cup {cur}
  /\ IF ~ receive_isdir[cur]
       THEN \* ReceivePath(receive_path) raises PathError
            /\ err' = "PathError" /\ pc' = "error"
            /\ UNCHANGED << diff, union, number_sent, msg, cur, B0 >>
       ELSE LET send_set == Range(Snapshots(send_fs[cur]))
                receive_set == Range(Snapshots(receive_fs[cur]))
                d == SortedDiff(send_set, receive_set)
            IN /\ diff' = d
               /\ union' = SortedUnion(send_set, receive_set)
               /\ number_sent' = Len(d)
               /\ B0' = [ B0 EXCEPT ![cur] = receive_set ]
               /\ err' = err
               /\ IF d # << >>
                    THEN pc' = "first" /\ UNCHANGED << msg, cur >>
                    ELSE Return([ kind |-> "none to copy", n |-> 0 ])
  /\ UNCHANGED repoVars
  /\ UNCHANGED << mode, send_fs, receive_fs, receive_isdir, parent, snapshot,
                  p1, p2, issued, completed, stderr_seen, last_exit, round, prev >>

\* Btrfs.send: Popen(['btrfs', 'send', ['-p', parent,] snapshot])
Send(par, snap) ==
  /\ parent' = par
  /\ snapshot' = snap
  /\ p1' = << par, snap >>
  /\ issued' = [ issued EXCEPT ![cur] = Append(@, << par, snap >>) ]
  /\ pc' = "receive"

\* the first transfer
FirstSend ==
  /\ pc = "first"
  /\ Send(FirstParent(union, diff), diff[1])
  /\ UNCHANGED repoVars
  /\ UNCHANGED << mode, send_fs, receive_fs, receive_isdir, cur, diff, union,
                  number_sent, p2, msg, err, completed, called, stderr_seen, last_exit,
                  round, B0, prev >>

\* while diff: the branch len(diff) >= 2
LoopSend ==
  /\ pc = "loop"
  /\ Len(diff) >= 2
  /\ diff' = Tail(diff)
  /\ Send(diff[1], diff[2])
  /\ UNCHANGED repoVars
  /\ UNCHANGED << mode, send_fs, receive_fs, receive_isdir, cur, union,
                  number_sent, p2, msg, err, completed, called, stderr_seen, last_exit,
                  round, B0, prev >>

\* while diff: the branch len(diff) = 1, the end of the loop and the return
LoopLast ==
  /\ pc = "loop"
  /\ Len(diff) = 1
  /\ diff' = Tail(diff)
  /\ Return([ kind |-> "copied", n |-> number_sent ])
  /\ UNCHANGED repoVars
  /\ UNCHANGED << mode, send_fs, receive_fs, receive_isdir, union, parent,
                  snapshot, number_sent, p1, p2, err, issued, completed, called,
                  stderr_seen, last_exit, round, B0, prev >>

\* Btrfs.receive: Popen(['btrfs', 'receive', path], stdin=p1.stdout)
ReceiveStart ==
  /\ pc = "receive"
  /\ p2' = "running"
  /\ pc' = "communicate"
  /\ UNCHANGED repoVars
  /\ UNCHANGED << mode, send_fs, receive_fs, receive_isdir, cur, diff, union,
                  parent, snapshot, number_sent, p1, msg, err, issued,
                  completed, called, stderr_seen, last_exit, round, B0, prev >>

\* Btrfs.receive: p2.communicate() returns, p1.stdout.close(), the test of
\* p2.returncode.  btrfs receive creates the snapshot iff it exits 0.
ReceiveExit(returncode, stderr) ==
  /\ pc = "communicate"
  /\ p2' = "exited"
  /\ p1' = << >>
  /\ receive_fs' = IF returncode = 0
                     THEN [ receive_fs EXCEPT ![cur] = @ \cup {snapshot} ]
                     ELSE receive_fs
  /\ completed' = IF returncode = 0
                    THEN [ completed EXCEPT ![cur] = @ + 1 ]
                    ELSE completed
  /\ stderr_seen' = (stderr_seen \/ (returncode = 0 /\ stderr))
  /\ last_exit' = [ returncode |-> returncode, stderr |-> stderr ]
  /\ IF ReceiveRaises(returncode, stderr)
       THEN err' = "BtrfsError" /\ pc' = "error"
       ELSE err' = err /\ pc' = "loop"
  /\ UNCHANGED repoVars
  /\ UNCHANGED << mode, send_fs, receive_isdir, cur, diff, union, parent,
                  snapshot, number_sent, msg, issued, called, round, B0, prev >>

Receive == \E returncode \in {0, 1}, stderr \in BOOLEAN : ReceiveExit(returncode, stderr)

(***************************************************************************)
(* btrsnap send SendPATH ReceivePATH, invoked up to MaxRounds times.       *)
(***************************************************************************)
InitLocals ==
  /\ cur = 1 /\ pc = "idle" /\ diff = << >> /\ union = << >>
  /\ parent = None /\ snapshot = None /\ number_sent = 0
  /\ p1 = << >> /\ p2 = "none" /\ msg = << >> /\ err = "none"
  /\ called = {} /\ stderr_seen = FALSE /\ round = 0 /\ prev = NoPrev
  /\ last_exit = [ returncode |-> 0, stderr |-> FALSE ]

InitRepoLocals ==
  /\ today = clock /\ snapshots = << >> /\ last_snapshot = None
  /\ less_than_last_snapshot = FALSE /\ timestamp = None /\ counter = 1
  /\ keep = 5 /\ snaps_to_delete = << >> /\ deletions = 0 /\ created = << >>
  /\ keeps = << >>

NoRepo == path_fs = {} /\ clock = << 2024, 1, 1 >> /\ InitRepoLocals

InitSync ==
  /\ mode = "single"
  /\ send_fs \in [ {1} -> SUBSET IdPool ]
  /\ receive_fs \in [ {1} -> SUBSET IdPool ]
  /\ receive_isdir \in [ {1} -> BOOLEAN ]
  /\ ~ receive_isdir[1] => receive_fs[1] = {}
  /\ issued = [ r \in {1} |-> << >> ]
  /\ completed = [ r \in {1} |-> 0 ]
  /\ B0 = [ r \in {1} |-> {} ]
  /\ InitLocals
  /\ NoRepo

NextSync ==
  \/ RunSend
  \/ Sendreceive
  \/ FirstSend
  \/ LoopSend
  \/ LoopLast
  \/ ReceiveStart
  \/ Receive

SpecSync == InitSync /\ [][NextSync]_vars

(***************************************************************************)
(* btrsnap send -r SendPATH ReceivePATH over NRepos siblings.              *)
(***************************************************************************)
Repos == 1..NRepos

InitDeep ==
  /\ mode = "deep"
  /\ send_fs \in [ Repos -> SUBSET DeepPool ]
  /\ receive_fs \in [ Repos -> SUBSET DeepPool ]
  /\ receive_isdir \in [ Repos -> BOOLEAN ]
  /\ \A r \in Repos : ~ receive_isdir[r] => receive_fs[r] = {}
  /\ issued = [ r \in Repos |-> << >> ]
  /\ completed = [ r \in Repos |-> 0 ]
  /\ B0 = [ r \in Repos |-> {} ]
  /\ InitLocals
  /\ NoRepo

NextDeep ==
  \/ SendreceiveDeep
  \/ Sendreceive
  \/ FirstSend
  \/ LoopSend
  \/ LoopLast
  \/ ReceiveStart
  \/ Receive

SpecDeep == InitDeep /\ [][NextDeep]_vars


(***************************************************************************)
(* Properties of sendreceive.                                              *)
(***************************************************************************)
SendSet(r) == { d \in send_fs[r] : MatchesPattern(d) }
ReceiveSet(r) == { d \in receive_fs[r] : MatchesPattern(d) }
Missing(r) == SendSet(r) \ B0[r]
Common(r) == SendSet(r) \cap B0[r]
Newest(S) == CHOOSE x \in S : \A y \in S : StrLeq(y, x)
Oldest(S) == CHOOSE x \in S : \A y \in S : StrLeq(x, y)

\* sendreceive has read the two directories of sibling r
Planned(r) == r \in called /\ receive_isdir[r] /\ ~ (r = cur /\ pc = "call")

\* sendreceive has returned for sibling r
Returned(r) == r \in called /\ (pc = "done" \/ r < cur)

\* the reference plan for send set A and receive set B
RefPlan(A, B) ==
  LET d == SortAsc(A \ B)
      common == A \cap B
      first == IF common # {} /\ StrLess(Newest(common), d[1])
                 THEN Newest(common) ELSE None
  IN [ i \in 1..Len(d) |-> << IF i = 1 THEN first ELSE d[i - 1], d[i] >> ]

IsPrefix(s, t) == Len(s) <= Len(t) /\ \A i \in 1..Len(s) : s[i] = t[i]

\* C1: the transfers sendreceive issues are the reference plan: always a
\* prefix of it, all of it once sendreceive has returned, and none exactly
\* when the send set is a subset of the receive set.
C1_IssuedIsReferencePlan ==
  \A r \in DOMAIN issued :
    /\ Planned(r) => IsPrefix(issued[r], RefPlan(SendSet(r), B0[r]))
    /\ ~ Planned(r) => issued[r] = << >>
    /\ Returned(r) =>
         /\ issued[r] = RefPlan(SendSet(r), B0[r])
         /\ (issued[r] = << >>) <=> (SendSet(r) \subseteq B0[r])

\* a returned plan of two steps or more whose first step is incremental
C1_Witness ==
  /\ Returned(1) /\ Len(issued[1]) >= 2 /\ issued[1][1][1] # None

\* a returned plan over diverged histories: a common snapshot exists and the
\* first step is a full transfer
C1_WitnessDiverged ==
  /\ Returned(1) /\ Common(1) # {} /\ Len(issued[1]) >= 1
  /\ issued[1][1][1] = None

\* C2: every step but the first has a parent; a parent is older than its
\* snapshot and, while its step executes, is on the receive side: it was
\* there when sendreceive started or an earlier completed step created it.
C2_ParentsPriorAndPresent ==
  \A r \in DOMAIN issued :
    /\ \A i \in 1..Len(issued[r]) :
         /\ i > 1 => issued[r][i][1] # None
         /\ issued[r][i][1] # None => StrLess(issued[r][i][1], issued[r][i][2])
    /\ (r = cur /\ pc \in {"receive", "communicate"} /\ parent # None) =>
         /\ parent \in ReceiveSet(r)
         /\ \/ parent \in B0[r]
            \/ \E j \in 1..(Len(issued[r]) - 1) :
                 issued[r][j][2] = parent /\ j <= completed[r]

\* a step executing whose parent was created by the step before it
C2_Witness ==
  /\ pc = "communicate" /\ parent # None /\ parent \notin B0[cur]
  /\ parent \in ReceiveSet(cur)

\* C3: when sendreceive returns, the receive set is the initial receive set
\* plus the send set, and the next sendreceive of the same send set issues
\* no transfer.
C3_Idempotent ==
  /\ (mode = "single" /\ pc = "done") => ReceiveSet(1) = B0[1] \cup SendSet(1)
  /\ prev.outcome = "done" =>
       /\ prev.after = prev.B \cup prev.A
       /\ issued[1] = << >> /\ number_sent = 0
       /\ pc \in {"call", "done"}

\* a second sendreceive has returned after a first one that copied two
\* snapshots or more
C3_Witness ==
  /\ round = 2 /\ pc = "done" /\ prev.outcome = "done"
  /\ Len(prev.issued) >= 2 /\ msg = << [ kind |-> "none to copy", n |-> 0 ] >>

\* C4 as stated: if some snapshot on both sides is older than the oldest
\* missing one, no step is a full transfer.
C4_NoFullTransferWithAnyOlderCommon ==
  \A r \in DOMAIN issued :
    (Planned(r) /\ \E c \in Common(r) : \A m \in Missing(r) : StrLess(c, m)) =>
      \A i \in 1..Len(issued[r]) : issued[r][i][1] # None

\* C4, amended: if the newest snapshot on both sides is older than the oldest
\* missing one, no step is a full transfer.
C4_NoFullTransferWithNewestCommonOlder ==
  \A r \in DOMAIN issued :
    (Planned(r) /\ Common(r) # {}
       /\ \A m \in Missing(r) : StrLess(Newest(Common(r)), m)) =>
      \A i \in 1..Len(issued[r]) : issued[r][i][1] # None

\* a returned plan of two steps or more, the newest common snapshot older
\* than every missing one
C4_Witness ==
  /\ Returned(1) /\ Common(1) # {} /\ Len(issued[1]) >= 2
  /\ \A m \in Missing(1) : StrLess(Newest(Common(1)), m)
  /\ \E c \in Common(1) : c # Newest(Common(1))

\* C5: steps start in ascending order of snapshot, each only after the one
\* before it completed; no step starts while a receive runs; after a receive
\* raised BtrfsError no further step starts and the error reaches the caller.
C5_StrictSequentialAbortOnFailure ==
  \A r \in DOMAIN issued :
    /\ \A i, j \in 1..Len(issued[r]) :
         i < j => StrLess(issued[r][i][2], issued[r][j][2])
    /\ Len(issued[r]) <= completed[r] + 1
    /\ p2 = "running" => pc = "communicate"
    /\ (r = cur /\ pc \in {"first", "loop"}) => Len(issued[r]) = completed[r]
    /\ (r = cur /\ Len(issued[r]) = completed[r] + 1) =>
         \/ pc \in {"receive", "communicate"}
         \/ pc = "error" /\ err = "BtrfsError"

\* a receive failed after an earlier step completed, with steps left over
C5_Witness ==
  /\ pc = "error" /\ err = "BtrfsError" /\ completed[1] >= 1
  /\ Len(issued[1]) = completed[1] + 1 /\ Len(diff) >= 2

\* C6: when a receive fails in one sibling of a deep send, sendreceive is
\* still called for every later sibling.
C6_LaterSiblingsStillSynchronized ==
  (mode = "deep" /\ pc = "error" /\ err = "BtrfsError") =>
    \A r \in DOMAIN send_fs : r > cur => r \in called


\* the step sendreceive is at has had its receive exit: last_exit is the
\* exit of the last transfer of issued[cur]
ReceiveHasExited ==
  /\ mode = "single" /\ issued[cur] # << >>
  /\ pc \in {"loop", "done", "error"}

\* C11 as stated: a receive that exits non-zero or writes diagnostics raises
\* BtrfsError, so sendreceive ends there.
C11_RaisesOnExitCodeOrDiagnostics ==
  (ReceiveHasExited /\ (last_exit.returncode # 0 \/ last_exit.stderr)) =>
    (pc = "error" /\ err = "BtrfsError")

\* C11, amended: a receive raises BtrfsError exactly when it exits non-zero;
\* after an exit with code 0, diagnostics or not, sendreceive goes on.
C11_RaisesExactlyOnExitCode ==
  ReceiveHasExited =>
    /\ (pc = "error" /\ err = "BtrfsError") <=> (last_exit.returncode # 0)
    /\ last_exit.returncode = 0 =>
         (err = "none" /\ Len(issued[cur]) = completed[cur])

\* a receive exited 0 with diagnostics and sendreceive is about to start the
\* next step
C11_Witness ==
  /\ ReceiveHasExited /\ pc = "loop" /\ Len(diff) >= 2
  /\ last_exit.returncode = 0 /\ last_exit.stderr /\ err = "none"

\* the previous sendreceive was stopped by a failed receive after k >= 1
\* completed steps, and started with every common snapshot older than every
\* missing one
PrevAbortedAfterProgress ==
  /\ mode = "single" /\ prev.outcome = "error" /\ prev.completed >= 1
  /\ \A c \in prev.A \cap prev.B : \A m \in prev.A \ prev.B : StrLess(c, m)

\* C13: after a sendreceive stopped by a failed receive with k >= 1 steps
\* completed, the receive set is the former one plus the k oldest missing
\* snapshots, and the next sendreceive issues the remaining missing snapshots
\* in ascending order, the first with the k-th as parent, each later one with
\* its predecessor.
C13_ResumesIncrementally ==
  PrevAbortedAfterProgress =>
    LET d == SortAsc(prev.A \ prev.B)
        k == prev.completed
        rest == [ i \in 1..(Len(d) - k) |-> << d[k + i - 1], d[k + i] >> ]
    IN /\ k < Len(d)
       /\ prev.after = prev.B \cup { d[i] : i \in 1..k }
       /\ Planned(1) => IsPrefix(issued[1], rest)
       /\ Returned(1) => issued[1] = rest

\* the sendreceive after a stopped one has returned, having started with the
\* snapshot the stopped one transferred last as parent
C13_Witness ==
  /\ PrevAbortedAfterProgress /\ Returned(1) /\ issued[1] # << >>
  /\ issued[1][1][1] = prev.issued[prev.completed][2]
  /\ issued[1][1][1] \notin prev.B

(***************************************************************************)
(* snap and SnapPath.timestamp                                             *)
(***************************************************************************)
CounterLimit == 9999

syncLocals == << mode, send_fs, receive_fs, receive_isdir, cur, diff, union,
                 parent, snapshot, number_sent, p1, p2, issued, completed,
                 called, stderr_seen, last_exit, round, B0, prev >>

\* mutant: the guard against a newer existing snapshot is dropped
LessThanLastDropped(less, ts, last) == FALSE

\* if less_than_last_snapshot is True: ... timestamp <= last_snapshot
LessThanLast(less, ts, last) == IF less THEN StrLeq(ts, last) ELSE less

\* mutant: the limit is tested with >=
CounterExceededEarly(c) == c >= CounterLimit

\* if counter > 9999: raise
CounterExceeded(c) == c > CounterLimit

\* the condition of the while loop
WhileCondition ==
  \/ timestamp = None
  \/ timestamp \in Range(snapshots)
  \/ less_than_last_snapshot

\* snap up to the while loop of SnapPath.timestamp
Snap ==
  /\ pc = "idle"
  /\ today' = clock
  /\ snapshots' = Snapshots(path_fs)
  /\ IF snapshots' # << >>
       THEN last_snapshot' = snapshots'[1] /\ less_than_last_snapshot' = TRUE
       ELSE last_snapshot' = None /\ less_than_last_snapshot' = FALSE
  /\ timestamp' = None
  /\ counter' = 1
  /\ pc' = "while"
  /\ UNCHANGED << path_fs, clock, keep, snaps_to_delete, deletions, created,
                  msg, err >>
  /\ UNCHANGED keeps
  /\ UNCHANGED syncLocals

\* one iteration of the while loop
TimestampLoop ==
  /\ pc = "while"
  /\ WhileCondition
  /\ timestamp' = FormatTimestamp(today, counter)
  /\ less_than_last_snapshot' =
       LessThanLast(less_than_last_snapshot, timestamp', last_snapshot)
  /\ IF CounterExceeded(counter)
       THEN err' = "Exception" /\ pc' = "error" /\ counter' = counter
       ELSE err' = err /\ pc' = pc /\ counter' = counter + 1
  /\ UNCHANGED << path_fs, clock, today, snapshots, last_snapshot, keep,
                  snaps_to_delete, deletions, created, msg >>
  /\ UNCHANGED keeps
  /\ UNCHANGED syncLocals

\* return timestamp
TimestampReturn ==
  /\ pc = "while"
  /\ ~ WhileCondition
  /\ pc' = "btrfs.snap"
  /\ UNCHANGED << msg, err >>
  /\ UNCHANGED repoVars
  /\ UNCHANGED syncLocals

\* Btrfs.snap: btrfs subvolume snapshot creates the snapshot iff it exits 0
BtrfsSnap(return_code) ==
  /\ pc = "btrfs.snap"
  /\ IF return_code # 0
       THEN /\ err' = "BtrfsError" /\ pc' = "error"
            /\ UNCHANGED << path_fs, created >>
       ELSE /\ path_fs' = path_fs \cup {timestamp}
            /\ created' = Append(created, timestamp)
            /\ err' = err /\ pc' = "done"
  /\ UNCHANGED << clock, today, snapshots, last_snapshot,
                  less_than_last_snapshot, timestamp, counter, keep,
                  snaps_to_delete, deletions, msg >>
  /\ UNCHANGED keeps
  /\ UNCHANGED syncLocals

CreateSnapshot == \E return_code \in {0, 1} : BtrfsSnap(return_code)

(***************************************************************************)
(* btrsnap snap PATH, for a directory PATH and a date.                     *)
(***************************************************************************)
Day(i) == << 2024, 6, i >>

\* a directory entry that is no snapshot: the counter has five digits
Junk == FormatTimestamp(Day(1), 10000)

SnapNames ==
  << FormatTimestamp(Day(1), 1), FormatTimestamp(Day(1), 9999),
     FormatTimestamp(Day(2), 1), FormatTimestamp(Day(1), 9998),
     Junk, FormatTimestamp(Day(1), 2), FormatTimestamp(Day(2), 9999) >>

SnapPool == { SnapNames[i] : i \in 1..NSnapNames }

NoSync ==
  /\ mode = "single"
  /\ send_fs = [ r \in {1} |-> {} ]
  /\ receive_fs = [ r \in {1} |-> {} ]
  /\ receive_isdir = [ r \in {1} |-> TRUE ]
  /\ issued = [ r \in {1} |-> << >> ]
  /\ completed = [ r \in {1} |-> 0 ]
  /\ B0 = [ r \in {1} |-> {} ]
  /\ InitLocals

InitSnap ==
  /\ NoSync
  /\ path_fs \in SUBSET SnapPool
  /\ clock \in { Day(1), Day(2) }
  /\ InitRepoLocals

NextSnap ==
  \/ Snap
  \/ TimestampLoop
  \/ TimestampReturn
  \/ CreateSnapshot

SpecSnap == InitSnap /\ [][NextSnap]_vars


(***************************************************************************)
(* Properties of SnapPath.timestamp and snap.                              *)
(***************************************************************************)
\* the snapshots timestamp() listed
Existing == Range(snapshots)

\* today-c is absent from the existing set and newer than all of it
ValidCounter(c) ==
  LET t == FormatTimestamp(today, c)
  IN t \notin Existing /\ \A s \in Existing : StrLess(s, t)

\* timestamp() has returned
TimestampReturned ==
  pc = "btrfs.snap" \/ pc = "done" \/ (pc = "error" /\ err = "BtrfsError")

\* timestamp() has raised
TimestampFailed == pc = "error" /\ err = "Exception"

\* C9: what timestamp() returns is today-c for the smallest counter c >= 1
\* such that today-c is not an existing snapshot and is newer than the newest
\* existing one; so it is no existing snapshot and newer than every one.
C9_TimestampIsSmallestValid ==
  TimestampReturned =>
    /\ \E c \in 1..CounterLimit :
         /\ timestamp = FormatTimestamp(today, c)
         /\ ValidCounter(c)
         /\ \A b \in 1..(c - 1) : ~ ValidCounter(b)
    /\ timestamp \notin Existing
    /\ \A s \in Existing : StrLess(s, timestamp)

\* with 2024-06-01-0001 existing on 2024-06-01 the result is 2024-06-01-0002
C9_Witness ==
  /\ pc = "btrfs.snap" /\ today = Day(1)
  /\ FormatTimestamp(Day(1), 1) \in Existing
  /\ timestamp = FormatTimestamp(Day(1), 2)

\* with the newest existing snapshot of an earlier day the result is today-0001
C9_WitnessEarlierDay ==
  /\ pc = "btrfs.snap" /\ today = Day(2)
  /\ last_snapshot = FormatTimestamp(Day(1), 9999)
  /\ timestamp = FormatTimestamp(Day(2), 1)

\* C10: timestamp() raises exactly when no counter in 1..9999 gives a name
\* absent from the existing set and newer than the newest existing one; what
\* it returns has a counter in 0001..9999; when it raises, snap creates
\* nothing.
C10_ExhaustedExactlyWhenNoCounter ==
  /\ TimestampFailed =>
       /\ \A c \in 1..CounterLimit : ~ ValidCounter(c)
       /\ created = << >>
       /\ Snapshots(path_fs) = snapshots
  /\ TimestampReturned =>
       /\ \E c \in 1..CounterLimit :
            timestamp = FormatTimestamp(today, c) /\ ValidCounter(c)
       /\ MatchesPattern(timestamp)
  /\ pc = "while" => counter <= CounterLimit + 1

\* clock skew: timestamp() raised, the newest existing snapshot is of a later day
C10_Witness ==
  /\ TimestampFailed /\ today = Day(1)
  /\ last_snapshot = FormatTimestamp(Day(2), 1)

\* timestamp() raised, today-9999 exists
C10_Witness9999 ==
  /\ TimestampFailed /\ last_snapshot = FormatTimestamp(today, CounterLimit)


(***************************************************************************)
(* unsnap                                                                  *)
(***************************************************************************)
\* mutant: the slice starts one element late
SnapsToDeleteLate(snaps, k) == SubSeq(snaps, k + 2, Len(snaps))

\* mutant: the slice taken from the wrong end, snapshots[:-keep] for keep > 0
SnapsToDeleteNewest(snaps, k) == SubSeq(snaps, 1, Len(snaps) - k)

\* snapshots[keep:]
SnapsToDelete(snaps, k) == SubSeq(snaps, k + 1, Len(snaps))

\* unsnap up to the for loop, and its else branch
Unsnap(k) ==
  /\ pc = "idle"
  /\ keep' = k
  /\ snapshots' = Snapshots(path_fs)
  /\ deletions' = 0
  /\ IF ~ (k >= 0)
       THEN \* raise Exception('keep must be a positive integer')
            /\ err' = "Exception" /\ pc' = "error"
            /\ UNCHANGED << snaps_to_delete, msg >>
       ELSE /\ err' = err
            /\ IF Len(snapshots') > k
                 THEN /\ snaps_to_delete' = SnapsToDelete(snapshots', k)
                      /\ pc' = "for"
                      /\ msg' = msg
                 ELSE /\ snaps_to_delete' = << >>
                      /\ pc' = "done"
                      /\ msg' = Append(msg, [ kind |-> "not deleting any", n |-> 0 ])
  /\ UNCHANGED << path_fs, clock, today, last_snapshot,
                  less_than_last_snapshot, timestamp, counter, created >>
  /\ keeps' = Append(keeps, k)
  /\ UNCHANGED syncLocals

\* one iteration of the for loop: Btrfs.unsnap; btrfs subvolume delete
\* removes the snapshot iff it exits 0
BtrfsUnsnap(return_code) ==
  /\ pc = "for"
  /\ deletions < Len(snaps_to_delete)
  /\ deletions' = deletions + 1
  /\ IF return_code # 0
       THEN /\ err' = "BtrfsError" /\ pc' = "error"
            /\ UNCHANGED << path_fs, msg >>
       ELSE /\ path_fs' = path_fs \ { snaps_to_delete[deletions + 1] }
            /\ err' = err
            /\ IF deletions + 1 = Len(snaps_to_delete)
                 THEN /\ pc' = "done"
                      /\ msg' = Append(msg, [ kind |-> "deleted",
                                              n |-> Len(snaps_to_delete) ])
                 ELSE pc' = pc /\ msg' = msg
  /\ UNCHANGED << clock, today, snapshots, last_snapshot,
                  less_than_last_snapshot, timestamp, counter, keep,
                  snaps_to_delete, created >>
  /\ UNCHANGED keeps
  /\ UNCHANGED syncLocals

DeleteSnapshot == \E return_code \in {0, 1} : BtrfsUnsnap(return_code)

(***************************************************************************)
(* btrsnap delete -k KEEP PATH, for a directory PATH and a KEEP.           *)
(***************************************************************************)
UnsnapPool == { Id(i) : i \in 1..NUnsnapIds } \cup { Junk }

InitUnsnap ==
  /\ NoSync
  /\ path_fs \in SUBSET UnsnapPool
  /\ clock = Day(1)
  /\ InitRepoLocals

NextUnsnap ==
  \/ \E k \in (-1)..MaxKeep : Unsnap(k)
  \/ DeleteSnapshot

SpecUnsnap == InitUnsnap /\ [][NextUnsnap]_vars

(***************************************************************************)
(* Properties of unsnap.                                                   *)
(***************************************************************************)
\* the snapshots unsnap listed
Listed == Range(snapshots)
Selected == Range(snaps_to_delete)
Max0(n) == IF n > 0 THEN n ELSE 0
Min2(a, b) == IF a < b THEN a ELSE b

\* unsnap has made its selection
UnsnapSelected == pc \in {"for", "done"} \/ (pc = "error" /\ err = "BtrfsError")

\* C7: unsnap selects max(0, |S| - keep) snapshots, all of S, each older than
\* every snapshot it retains; when every deletion succeeded the min(|S|, keep)
\* newest snapshots are what is left.
C7_DeletesOldestExcess ==
  UnsnapSelected =>
    /\ Len(snaps_to_delete) = Max0(Cardinality(Listed) - keep)
    /\ Cardinality(Selected) = Len(snaps_to_delete)
    /\ Selected \subseteq Listed
    /\ \A x \in Selected : \A y \in Listed \ Selected : StrLess(x, y)
    /\ pc = "done" =>
         LET left == { d \in path_fs : MatchesPattern(d) }
         IN /\ Cardinality(left) = Min2(Cardinality(Listed), keep)
            /\ left \subseteq Listed
            /\ \A y \in left : \A x \in Listed \ left : StrLess(x, y)

\* two snapshots or more deleted and one or more kept
C7_Witness ==
  /\ pc = "done" /\ keep >= 1 /\ Len(snaps_to_delete) >= 2
  /\ Cardinality(Listed) > keep /\ deletions = Len(snaps_to_delete)

\* keep = 0 deletes every snapshot
C7_WitnessKeepZero ==
  /\ pc = "done" /\ keep = 0 /\ Cardinality(Listed) >= 2
  /\ { d \in path_fs : MatchesPattern(d) } = {}

\* C8: when unsnap ends, Btrfs.unsnap has been called for every snapshot it
\* selected, also when one of the calls raised BtrfsError.
C8_EveryDeletionAttempted ==
  (pc \in {"done", "error"} /\ keep >= 0) => deletions = Len(snaps_to_delete)


(***************************************************************************)
(* A history of one directory PATH: btrsnap snap PATH and btrsnap delete   *)
(* -k KEEP PATH, one command after the other, while the date advances.     *)
(***************************************************************************)
\* the command has ended; main is entered for the next one
Again ==
  /\ pc \in {"done", "error"}
  /\ pc' = "idle" /\ err' = "none" /\ msg' = << >>
  /\ today' = clock /\ snapshots' = << >> /\ last_snapshot' = None
  /\ less_than_last_snapshot' = FALSE /\ timestamp' = None /\ counter' = 1
  /\ keep' = 5 /\ snaps_to_delete' = << >> /\ deletions' = 0
  /\ UNCHANGED << path_fs, clock, created, keeps >>
  /\ UNCHANGED syncLocals

\* midnight: datetime.date.today() returns the next day from now on.  The
\* date is read once, where snap starts, so a change of date during a command
\* is a change of date before the next one.
Tick ==
  /\ pc = "idle"
  /\ clock[3] < MaxDay
  /\ clock' = << clock[1], clock[2], clock[3] + 1 >>
  /\ UNCHANGED << path_fs, today, snapshots, last_snapshot,
                  less_than_last_snapshot, timestamp, counter, keep,
                  snaps_to_delete, deletions, created, keeps, pc, msg, err >>
  /\ UNCHANGED syncLocals

LifeNames ==
  << FormatTimestamp(Day(1), 1), Junk, FormatTimestamp(Day(1), 2),
     FormatTimestamp(Day(1), 3) >>

LifePool == { LifeNames[i] : i \in 1..NLifeNames }

InitLife ==
  /\ NoSync
  /\ path_fs \in SUBSET LifePool
  /\ clock = Day(1)
  /\ InitRepoLocals

NextLife ==
  \/ Len(created) < MaxCreated /\ Snap
  \/ TimestampLoop
  \/ TimestampReturn
  \/ CreateSnapshot
  \/ Len(keeps) < MaxUnsnaps /\ \E k \in 0..MaxLifeKeep : Unsnap(k)
  \/ DeleteSnapshot
  \/ Again
  \/ Tick

SpecLife == InitLife /\ [][NextLife]_vars

(***************************************************************************)
(* Properties of a history.                                                *)
(***************************************************************************)
\* every snapshot created is newer than every snapshot created before it
CreatedAscending ==
  \A i, j \in 1..Len(created) : i < j => StrLess(created[i], created[j])

\* C12 as stated: for any keep >= 0, every snapshot created is newer than
\* every snapshot created before it in PATH, deleted or not; no name is
\* given twice.
C12_CreationOrderOverHistory == CreatedAscending

\* C12, amended: as long as every unsnap was called with keep >= 1, every
\* snapshot created is newer than every snapshot created before it in PATH,
\* deleted or not; no name is given twice.
C12_CreationOrderWhileNewestKept ==
  (\A i \in 1..Len(keeps) : keeps[i] >= 1) => CreatedAscending

\* three snapshots created, the first of them deleted by an unsnap with
\* keep >= 1
C12_Witness ==
  /\ Len(created) >= 3 /\ keeps # << >>
  /\ \A i \in 1..Len(keeps) : keeps[i] >= 1
  /\ created[1] \notin path_fs

====
